---- MODULE Spec2Model ----
(***************************************************************************)
(* Habit tracker (HabitTracker component): day store, progress, streak and *)
(* badge derivation, with the JavaScript Date arithmetic of the backward   *)
(* streak walk.  Dates are day numbers; instants are hours since the UTC   *)
(* midnight of day 0.                                                      *)
(***************************************************************************)
EXTENDS Integers, Sequences, FiniteSets, TLC

VARIABLES store, selectedDate, tz, view, steps, probe,
          localStorage, mounted, prompt, toggled, download,
          caches, worker

vars == <<store, selectedDate, tz, view, steps, probe,
          localStorage, mounted, prompt, toggled, download,
          caches, worker>>

(* ------------------------------ bounds -------------------------------- *)
\* Date keys the user can select and the loaded store can hold: 1..NumDays.
NumDays == 3
\* Number of user actions after the first render.
MaxSteps == 2
\* Largest streak value fed to the badge evaluator.
MaxStreak == 32
\* Date keys of the calendar in which the streak loop is followed.
WalkDays == 45

Dates == 1..NumDays

(* ------------------------------ Config -------------------------------- *)
HABITS_eatingGoal3 ==
  << [id |-> "smoking",  items |-> <<"smoke_free", "mindful_breaks">>,
      dailyGoal |-> 1],
     [id |-> "eating",   items |-> <<"home_cooked", "fruits_veggies", "no_sugar">>,
      dailyGoal |-> 3],
     [id |-> "exercise", items |-> <<"workout_30", "walk_8k", "stretch_10">>,
      dailyGoal |-> 2] >>

HABITS ==
  << [id |-> "smoking",  items |-> <<"smoke_free", "mindful_breaks">>,
      dailyGoal |-> 1],
     [id |-> "eating",   items |-> <<"home_cooked", "fruits_veggies", "no_sugar">>,
      dailyGoal |-> 2],
     [id |-> "exercise", items |-> <<"workout_30", "walk_8k", "stretch_10">>,
      dailyGoal |-> 2] >>

POINTS_PER_ITEM == 10

BADGES ==
  << [id |-> "bronze_3",   threshold |-> 3],
     [id |-> "silver_7",   threshold |-> 7],
     [id |-> "gold_14",    threshold |-> 14],
     [id |-> "diamond_30", threshold |-> 30] >>

HabitIds == {HABITS[i].id : i \in DOMAIN HABITS}

\* HABITS.find(h => h.id === habitId)
FindHabit(habitId) ==
  HABITS[CHOOSE i \in DOMAIN HABITS : HABITS[i].id = habitId]

CheckKey_swapped(habitId, itemId) == <<itemId, habitId>>

\* `${habitId}.${itemId}`: a key is the sequence of its dot-separated parts.
CheckKey(habitId, itemId) == <<habitId, itemId>>

\* k.split('.')
Split(k) == k

CatalogKeys ==
  UNION {{CheckKey(HABITS[i].id, HABITS[i].items[j]) :
            j \in DOMAIN HABITS[i].items} : i \in DOMAIN HABITS}

(* ------------------------------- Utils -------------------------------- *)
HoursPerDay == 24

\* The host's local time zone: standard offset (hours), and at most one
\* daylight-saving transition inside the modelled calendar, at UTC hour `at`.
\*   "fall":   daylight time before `at`, standard time from `at` on
\*   "spring": standard time before `at`, daylight time from `at` on
\* A "summer" zone has both inside the calendar: daylight time from `spring`
\* up to `at`.
TimeZones ==
  { [name |-> "UTC",              off |-> 0,  kind |-> "none",   at |-> 0],
    [name |-> "Europe/Berlin",    off |-> 1,  kind |-> "fall",   at |-> 2 * 24 + 1],
    [name |-> "Europe/Berlin",    off |-> 1,  kind |-> "spring", at |-> 2 * 24 + 1] }

\* Offset of local time from UTC at the instant t.
LocalOffset(z, t) ==
  CASE z.kind = "none"   -> z.off
    [] z.kind = "fall"   -> IF t < z.at THEN z.off + 1 ELSE z.off
    [] z.kind = "spring" -> IF t < z.at THEN z.off ELSE z.off + 1
    [] z.kind = "summer" -> IF z.spring <= t /\ t < z.at
                            THEN z.off + 1 ELSE z.off

\* Offset in force just before the transition that makes the wall-clock
\* reading `l` occur twice (clocks set back: daylight time before) or never
\* (clocks set forward: standard time before).
OffsetBefore(z, l) ==
  CASE z.kind = "fall"   -> z.off + 1
    [] z.kind = "summer" ->
         IF \E u \in {l - z.off, l - z.off - 1} : (u + LocalOffset(z, u)) = l
         THEN z.off + 1 ELSE z.off
    [] OTHER             -> z.off

\* LocalTime(t) of ECMAScript: the wall-clock reading at instant t.
LocalTime(z, t) == t + LocalOffset(z, t)

\* UTC(local) of ECMAScript: the instant whose wall-clock reading is `l`;
\* a reading that occurs twice or never is interpreted with the offset in
\* force before the transition.
UTCOf(z, l) ==
  LET cands == {u \in {l - z.off, l - z.off - 1} : LocalTime(z, u) = l}
  IN  IF Cardinality(cands) = 1 THEN CHOOSE u \in cands : TRUE
      ELSE l - OffsetBefore(z, l)

\* new Date().toISOString().slice(0, 10): the session starts on the last day
\* of the modelled calendar.
todayKey == NumDays

\* new Date("YYYY-MM-DD"): a date-only string is UTC midnight of that day.
NewDate(key) == key * HoursPerDay

\* d.toISOString().slice(0, 10): the UTC calendar day of the instant.
keyFor(t) == t \div HoursPerDay

\* x.setDate(x.getDate() - days): same wall-clock reading, `days` local
\* calendar days earlier.
prevDate(z, t, days) == UTCOf(z, LocalTime(z, t) - days * HoursPerDay)

(* ------------------------------ Storage ------------------------------- *)
EmptyChecks == [k \in {} |-> TRUE]

EmptyStore == [byDate |-> [d \in {} |-> [date |-> d, checks |-> EmptyChecks]]]

HasRecord(s, dateKey) == dateKey \in DOMAIN s.byDate

\* A loaded record whose checked items meet every habit's goal exactly.
MetChecks ==
  (CheckKey("smoking", "smoke_free") :> TRUE) @@
  (CheckKey("eating", "home_cooked") :> TRUE) @@
  (CheckKey("eating", "no_sugar") :> TRUE) @@
  (CheckKey("exercise", "workout_30") :> TRUE) @@
  (CheckKey("exercise", "walk_8k") :> TRUE)

\* A loaded record written under an older catalog: it carries keys that
\* name no item of the current catalog.
StaleChecks ==
  (CheckKey("smoking", "smoke_free") :> TRUE) @@
  (CheckKey("smoking", "mindful_breaks") :> TRUE) @@
  (CheckKey("smoking", "old_item") :> TRUE) @@
  (CheckKey("other", "x") :> TRUE) @@
  (CheckKey("eating", "home_cooked") :> TRUE) @@
  (CheckKey("eating", "fruits_veggies") :> FALSE)

SampleChecks == {MetChecks, StaleChecks}

\* loadStore(): the parsed value of the storage entry, or the empty store.
\* The entry holds what an earlier session saved: for each date either no
\* record or a record {date, checks}.
LoadableStores ==
  UNION {{[byDate |-> [d \in S |-> [date |-> d, checks |-> c[d]]]] :
            c \in [S -> SampleChecks]} : S \in SUBSET Dates}

STORAGE_KEY == "habit-tracker-v1"

\* JavaScript values met when the storage entry is parsed.  A property value
\* is tagged with its type; `map` is the date -> DayRecord mapping of an
\* object-valued byDate.  A parsed value is tagged with its type and carries
\* what reading its byDate property yields.
JsUndefined == [t |-> "undefined", map |-> EmptyStore.byDate]
JsNull == [t |-> "null", map |-> EmptyStore.byDate]
JsZero == [t |-> "number", map |-> EmptyStore.byDate]
JsObject(m) == [t |-> "object", map |-> m]

ParsedNull == [t |-> "null", byDate |-> JsUndefined]
ParsedZero == [t |-> "number", byDate |-> JsUndefined]
ParsedObject(field) == [t |-> "object", byDate |-> field]

\* The literal { byDate: {} }.
EmptyStoreValue == ParsedObject(JsObject(EmptyStore.byDate))

\* Strings a storage entry can hold, and the null that getItem returns for a
\* key that is not there.
TextEmpty == [kind |-> "empty", val |-> ParsedNull]
TextGarbage == [kind |-> "garbage", val |-> ParsedNull]
TextJson(v) == [kind |-> "json", val |-> v]
ItemNull == [kind |-> "null", val |-> ParsedNull]

\* JSON.stringify(s): the text that parses back to the store object.
JSONstringify(s) == TextJson(ParsedObject(JsObject(s.byDate)))

\* JSON.parse(text): throws unless the text is JSON.
JSONparse(text) == [threw |-> text.kind # "json", value |-> text.val]

\* localStorage.getItem(key): throws when storage access is denied.
getItem(ls, key) ==
  IF ls.denied THEN [threw |-> TRUE, value |-> ItemNull]
  ELSE [threw |-> FALSE,
        value |-> IF key \in DOMAIN ls.items THEN ls.items[key] ELSE ItemNull]

\* localStorage.setItem(key, text)
setItem(items, key, text) ==
  [k \in DOMAIN items \cup {key} |-> IF k = key THEN text ELSE items[k]]

\* !raw: null and the empty string are falsy.
Falsy(raw) == raw.kind \in {"null", "empty"}

\* Truthiness of parsed?.byDate among undefined, null, 0 and objects.
Truthy(v) == v.t = "object"

\* The try block of loadStore.
LoadTry(ls) ==
  LET got == getItem(ls, STORAGE_KEY)
  IN  IF got.threw THEN [threw |-> TRUE, value |-> EmptyStoreValue]
      ELSE IF Falsy(got.value) THEN [threw |-> FALSE, value |-> EmptyStoreValue]
      ELSE LET p == JSONparse(got.value)
           IN  IF p.threw THEN [threw |-> TRUE, value |-> EmptyStoreValue]
               ELSE [threw |-> FALSE,
                     value |-> IF Truthy(p.value.byDate) THEN p.value
                               ELSE EmptyStoreValue]

loadStoreOutcome_noCatch(ls) == LoadTry(ls)

\* loadStore with its catch: what the call returns, and whether it throws.
loadStoreOutcome(ls) ==
  LET body == LoadTry(ls)
  IN  IF body.threw THEN [threw |-> FALSE, value |-> EmptyStoreValue]
      ELSE body

\* The returned object read as a StoreShape.
loadStore(ls) == [byDate |-> loadStoreOutcome(ls).value.byDate.map]

saveStore_otherKey(items, s) ==
  setItem(items, "habit-tracker", JSONstringify(s))

\* saveStore: localStorage.setItem(STORAGE_KEY, JSON.stringify(s))
saveStore(items, s) == setItem(items, STORAGE_KEY, JSONstringify(s))

\* Entries an earlier session, another version or the user may have left.
InitialEntries ==
  {TextEmpty, TextGarbage, TextJson(ParsedNull), TextJson(ParsedZero),
   TextJson(ParsedObject(JsUndefined)), TextJson(ParsedObject(JsNull)),
   TextJson(ParsedObject(JsZero))} \cup
  {JSONstringify(s) : s \in LoadableStores}

NoItems == [k \in {} |-> ItemNull]

InitialStorages ==
  {NoItems} \cup {(STORAGE_KEY :> e) : e \in InitialEntries}

Readable(items) == [denied |-> FALSE, items |-> items]

(* --------------------------- Service workers -------------------------- *)
\* The three worker scripts and the cache each one names in CACHE.
Scripts == {"public/sw.js", "part_001", "part_000"}

CACHE(script) ==
  CASE script = "public/sw.js" -> "habit-tracker-v1"
    [] script = "part_001"     -> "habit-tracker-v4"
    [] script = "part_000"     -> "habit-tracker-v8"

ASSETS == {"/", "/index.html", "/manifest.json"}

\* Requests the page makes: the pre-cached assets and one bundle file.
Urls == ASSETS \cup {"/assets/index.js"}

\* What the server holds for a URL changes between deployments.
Bodies == {"old", "new"}

\* Outcome of fetch(request): the promise rejects or resolves with a body.
NetOutcomes == {"fail"} \cup Bodies

NoEntries == [u \in {} |-> "old"]

\* CacheStorage: cache name -> (request URL -> stored response).
NoCaches == [n \in {} |-> NoEntries]

\* caches.open(name): the named cache, created empty when missing.
CachesOpen(cs, name) ==
  [n \in DOMAIN cs \cup {name} |-> IF n \in DOMAIN cs THEN cs[n] ELSE NoEntries]

\* caches.open(name).then(c => c.put(request, response))
CachePut(cs, name, url, body) ==
  LET opened == CachesOpen(cs, name)
  IN  [opened EXCEPT ![name] =
         [u \in DOMAIN @ \cup {url} |-> IF u = url THEN body ELSE @[u]]]

\* Cache names in creation order: the version suffix grows with each deploy.
CreatedBefore(n, m) ==
  LET rank == [x \in {"habit-tracker-v1", "habit-tracker-v4",
                      "habit-tracker-v8"} |->
                 CASE x = "habit-tracker-v1" -> 1
                   [] x = "habit-tracker-v4" -> 4
                   [] x = "habit-tracker-v8" -> 8]
  IN  rank[n] <= rank[m]

\* caches.match(request): the entry of the first cache, in creation order,
\* that holds the request; undefined when none does.
CachesMatch(cs, url) ==
  LET holders == {n \in DOMAIN cs : url \in DOMAIN cs[n]}
  IN  IF holders = {} THEN [found |-> FALSE, body |-> "undefined"]
      ELSE LET first == CHOOSE n \in holders :
                          \A m \in holders : CreatedBefore(n, m)
           IN  [found |-> TRUE, body |-> cs[first][url]]

NoAnswer == [url |-> "none", net |-> "none", from |-> "none", body |-> "none"]

NoWorker == [script |-> "none", phase |-> "none", answer |-> NoAnswer]

\* respondWith(caches.match(request).then(m => m || fetch(request)))
fetchCacheFirst(cs, script, url, net) ==
  LET m == CachesMatch(cs, url)
  IN  [caches |-> cs,
       answer |-> IF m.found
                  THEN [url |-> url, net |-> net, from |-> "cache",
                        body |-> m.body]
                  ELSE IF net = "fail"
                       THEN [url |-> url, net |-> net, from |-> "error",
                             body |-> "none"]
                       ELSE [url |-> url, net |-> net, from |-> "network",
                             body |-> net]]

fetchNetworkFirst_noPut(cs, script, url, net) ==
  IF net # "fail"
  THEN [caches |-> cs,
        answer |-> [url |-> url, net |-> net, from |-> "network",
                    body |-> net]]
  ELSE LET m == CachesMatch(cs, url)
       IN  [caches |-> cs,
            answer |-> IF m.found
                       THEN [url |-> url, net |-> net, from |-> "cache",
                             body |-> m.body]
                       ELSE [url |-> url, net |-> net, from |-> "error",
                             body |-> "none"]]

\* respondWith(fetch(request).then(res => { put a copy; return res })
\*                            .catch(() => caches.match(request)))
fetchNetworkFirst(cs, script, url, net) ==
  IF net # "fail"
  THEN [caches |-> CachePut(cs, CACHE(script), url, net),
        answer |-> [url |-> url, net |-> net, from |-> "network",
                    body |-> net]]
  ELSE LET m == CachesMatch(cs, url)
       IN  [caches |-> cs,
            answer |-> IF m.found
                       THEN [url |-> url, net |-> net, from |-> "cache",
                             body |-> m.body]
                       ELSE [url |-> url, net |-> net, from |-> "error",
                             body |-> "none"]]

(* ----------------------------- Component ------------------------------ *)
toggleCheck_setTrue(prev, sel, habitId, itemId) ==
  LET key == CheckKey(habitId, itemId)
      existing == IF HasRecord(prev, sel) THEN prev.byDate[sel].checks
                  ELSE EmptyChecks
      nextChecks == [k \in DOMAIN existing \cup {key} |->
                       IF k = key THEN TRUE ELSE existing[k]]
  IN  [byDate |-> [d \in DOMAIN prev.byDate \cup {sel} |->
                     IF d = sel THEN [date |-> sel, checks |-> nextChecks]
                     ELSE prev.byDate[d]]]

toggleCheck_dropOthers(prev, sel, habitId, itemId) ==
  LET key == CheckKey(habitId, itemId)
      existing == IF HasRecord(prev, sel) THEN prev.byDate[sel].checks
                  ELSE EmptyChecks
      old == key \in DOMAIN existing /\ existing[key]
      nextChecks == [k \in {key} |-> ~old]
  IN  [byDate |-> [d \in DOMAIN prev.byDate \cup {sel} |->
                     IF d = sel THEN [date |-> sel, checks |-> nextChecks]
                     ELSE prev.byDate[d]]]

\* toggleCheck: the setStore updater applied to the previous store.
toggleCheck(prev, sel, habitId, itemId) ==
  LET key == CheckKey(habitId, itemId)
      existing == IF HasRecord(prev, sel) THEN prev.byDate[sel].checks
                  ELSE EmptyChecks
      old == key \in DOMAIN existing /\ existing[key]
      nextChecks == [k \in DOMAIN existing \cup {key} |->
                       IF k = key THEN ~old ELSE existing[k]]
  IN  [byDate |-> [d \in DOMAIN prev.byDate \cup {sel} |->
                     IF d = sel THEN [date |-> sel, checks |-> nextChecks]
                     ELSE prev.byDate[d]]]

clearDate_keepRecord(prev, sel) ==
  [byDate |-> [d \in DOMAIN prev.byDate |->
                 IF d = sel THEN [date |-> sel, checks |-> EmptyChecks]
                 ELSE prev.byDate[d]]]

clearDate_all(prev, sel) == EmptyStore

\* "Clear <selectedDate>": delete next[selectedDate].
clearDate(prev, sel) ==
  [byDate |-> [d \in DOMAIN prev.byDate \ {sel} |-> prev.byDate[d]]]

\* perHabit.get(habitId) || 0
GetOr0_default1(m, k) == IF k \in DOMAIN m THEN m[k] ELSE 1

GetOr0(m, k) == IF k \in DOMAIN m THEN m[k] ELSE 0

\* Object.entries(rec.checks).forEach(...): one entry at a time.
RECURSIVE CountEntries(_, _, _)
CountEntries(checks, todo, acc) ==
  IF todo = {} THEN acc
  ELSE LET k == CHOOSE x \in todo : TRUE
           habitId == Split(k)[1]
       IN  IF ~checks[k] THEN CountEntries(checks, todo \ {k}, acc)
           ELSE CountEntries(checks, todo \ {k},
                  [perHabit |-> [h \in DOMAIN acc.perHabit \cup {habitId} |->
                                   IF h = habitId
                                   THEN GetOr0(acc.perHabit, habitId) + 1
                                   ELSE acc.perHabit[h]],
                   total |-> acc.total + 1])

NoCounts == [perHabit |-> [h \in {} |-> 0], total |-> 0]

getCountsForDate(s, dateKey) ==
  IF ~HasRecord(s, dateKey) THEN NoCounts
  ELSE LET rec == s.byDate[dateKey]
       IN  CountEntries(rec.checks, DOMAIN rec.checks, NoCounts)

\* Math.min(a, b)
MathMin(a, b) == IF a < b THEN a ELSE b

\* Math.round(n / d) for n >= 0, d > 0: nearest integer, halves upward.
MathRound(n, d) == (2 * n + d) \div (2 * d)

progressForHabit_gt(s, sel, habitId) ==
  LET done == GetOr0(getCountsForDate(s, sel).perHabit, habitId)
      cfg == FindHabit(habitId)
  IN  [done |-> done, total |-> Len(cfg.items),
       pct |-> MathMin(100, MathRound(done * 100, Len(cfg.items))),
       goalMet |-> done > cfg.dailyGoal]

progressForHabit_floor(s, sel, habitId) ==
  LET done == GetOr0(getCountsForDate(s, sel).perHabit, habitId)
      cfg == FindHabit(habitId)
  IN  [done |-> done, total |-> Len(cfg.items),
       pct |-> MathMin(100, (done * 100) \div Len(cfg.items)),
       goalMet |-> done >= cfg.dailyGoal]

progressForHabit_noclamp(s, sel, habitId) ==
  LET done == GetOr0(getCountsForDate(s, sel).perHabit, habitId)
      cfg == FindHabit(habitId)
  IN  [done |-> done, total |-> Len(cfg.items),
       pct |-> MathRound(done * 100, Len(cfg.items)),
       goalMet |-> done >= cfg.dailyGoal]

progressForHabit(s, sel, habitId) ==
  LET done == GetOr0(getCountsForDate(s, sel).perHabit, habitId)
      cfg == FindHabit(habitId)
  IN  [done |-> done, total |-> Len(cfg.items),
       pct |-> MathMin(100, MathRound(done * 100, Len(cfg.items))),
       goalMet |-> done >= cfg.dailyGoal]

totalPointsToday_allKeys(s, sel) ==
  (IF HasRecord(s, sel) THEN Cardinality(DOMAIN s.byDate[sel].checks) ELSE 0)
    * POINTS_PER_ITEM

totalPointsToday(s, sel) == getCountsForDate(s, sel).total * POINTS_PER_ITEM

overallGoalMet_exact(s, dateKey) ==
  LET perHabit == getCountsForDate(s, dateKey).perHabit
  IN  \A i \in DOMAIN HABITS :
        GetOr0(perHabit, HABITS[i].id) = HABITS[i].dailyGoal

overallGoalMet_some(s, dateKey) ==
  LET perHabit == getCountsForDate(s, dateKey).perHabit
  IN  \E i \in DOMAIN HABITS :
        GetOr0(perHabit, HABITS[i].id) >= HABITS[i].dailyGoal

\* HABITS.every(h => done >= h.dailyGoal)
overallGoalMet(s, dateKey) ==
  LET perHabit == getCountsForDate(s, dateKey).perHabit
  IN  \A i \in DOMAIN HABITS :
        GetOr0(perHabit, HABITS[i].id) >= HABITS[i].dailyGoal

\* The while (true) loop of overallStreak, entered with instant d.
RECURSIVE StreakWalk(_, _, _, _)
StreakWalk(s, z, d, streak) ==
  IF overallGoalMet(s, keyFor(d))
  THEN StreakWalk(s, z, prevDate(z, d, 1), streak + 1)
  ELSE streak

overallStreak_countFirst(s, z, sel) ==
  StreakWalk(s, z, prevDate(z, NewDate(sel), 1), 1)

overallStreak(s, z, sel) == StreakWalk(s, z, NewDate(sel), 0)

earnedBadges_gt(streak) ==
  LET kept == SelectSeq(BADGES, LAMBDA b : streak > b.threshold)
  IN  [i \in DOMAIN kept |-> kept[i].id]

earnedBadges_top(streak) ==
  LET kept == SelectSeq(BADGES, LAMBDA b : streak >= b.threshold)
  IN  IF kept = <<>> THEN <<>> ELSE <<kept[Len(kept)].id>>

\* BADGES.filter(b => overallStreak >= b.threshold).map(b => b.id)
earnedBadges(streak) ==
  LET kept == SelectSeq(BADGES, LAMBDA b : streak >= b.threshold)
  IN  [i \in DOMAIN kept |-> kept[i].id]

\* headers.join(",") is the first line; a line is the list of its fields.
CsvHeader == <<"date", "habitId", "itemId", "checked">>

\* Object.entries(day.checks).forEach(...): one line per recorded key.
RECURSIVE EntryRows(_, _)
EntryRows(day, todo) ==
  IF todo = {} THEN <<>>
  ELSE LET key == CHOOSE x \in todo : TRUE
           parts == Split(key)
       IN  << <<ToString(day.date), parts[1], parts[2],
                IF day.checks[key] THEN "1" ELSE "0">> >>
           \o EntryRows(day, todo \ {key})

\* h.items.forEach(it => ...): a "0" line for every item of habit h whose
\* key is not in day.checks.
RECURSIVE UncheckedItemRows(_, _, _)
UncheckedItemRows(day, h, j) ==
  IF j > Len(h.items) THEN <<>>
  ELSE LET k == CheckKey(h.id, h.items[j])
       IN  (IF k \notin DOMAIN day.checks
            THEN << <<ToString(day.date), h.id, h.items[j], "0">> >>
            ELSE <<>>)
           \o UncheckedItemRows(day, h, j + 1)

\* HABITS.forEach(h => h.items.forEach(...))
RECURSIVE UncheckedRows(_, _)
UncheckedRows(day, i) ==
  IF i > Len(HABITS) THEN <<>>
  ELSE UncheckedItemRows(day, HABITS[i], 1) \o UncheckedRows(day, i + 1)

\* Object.values(byDate).forEach(day => ...)
RECURSIVE DayRows(_, _)
DayRows(byDate, todo) ==
  IF todo = {} THEN <<>>
  ELSE LET d == CHOOSE x \in todo : \A y \in todo : x <= y
           day == byDate[d]
       IN  EntryRows(day, DOMAIN day.checks) \o UncheckedRows(day, 1)
           \o DayRows(byDate, todo \ {d})

exportCSV_recordedOnly(byDate) ==
  LET RECURSIVE Days(_)
      Days(todo) ==
        IF todo = {} THEN <<>>
        ELSE LET d == CHOOSE x \in todo : \A y \in todo : x <= y
             IN  EntryRows(byDate[d], DOMAIN byDate[d].checks)
                 \o Days(todo \ {d})
  IN  <<CsvHeader>> \o Days(DOMAIN byDate)

\* exportCSV: the lines of the downloaded file.
exportCSV(byDate) == <<CsvHeader>> \o DayRows(byDate, DOMAIN byDate)

\* What one render of the component shows for a store and selected date.
Render(s, z, sel) ==
  LET st == overallStreak(s, z, sel)
  IN  [progress |-> [h \in HabitIds |-> progressForHabit(s, sel, h)],
       points |-> totalPointsToday(s, sel),
       streak |-> st,
       badges |-> earnedBadges(st)]

(* --------------------------- State machine ---------------------------- *)
NoProbe == [s1 |-> 0, s2 |-> 0, b1 |-> <<>>, b2 |-> <<>>]

\* useState initialisers and first render, for a storage content drawn from
\* `storages`: store = loadStore(), selectedDate = todayKey().
InitFrom(storages) ==
  /\ tz \in TimeZones
  /\ localStorage \in storages
  /\ store = loadStore(Readable(localStorage))
  /\ selectedDate = todayKey
  /\ view = Render(store, tz, selectedDate)
  /\ steps = 0
  /\ probe = NoProbe
  /\ mounted = FALSE
  /\ prompt = "none"
  /\ toggled = {}
  /\ download = <<>>
  /\ caches = NoCaches
  /\ worker = NoWorker

Init == InitFrom(InitialStorages)

Mount_noSave ==
  /\ ~mounted
  /\ mounted' = TRUE
  /\ UNCHANGED <<caches, worker, store, selectedDate, tz, view, steps, probe, prompt,
                 toggled, download, localStorage>>

\* useEffect(() => saveStore(store), [store]) after the first commit; React
\* runs it before it handles any user event.
Mount ==
  /\ ~mounted
  /\ mounted' = TRUE
  /\ localStorage' = saveStore(localStorage, store)
  /\ UNCHANGED <<caches, worker, store, selectedDate, tz, view, steps, probe, prompt,
                 toggled, download>>

\* Checkbox onChange: toggleCheck(h.id, it.id), re-render, save effect.
ToggleCheck ==
  \E i \in DOMAIN HABITS : \E j \in DOMAIN HABITS[i].items :
    /\ mounted
    /\ steps < MaxSteps
    /\ store' = toggleCheck(store, selectedDate, HABITS[i].id, HABITS[i].items[j])
    /\ view' = Render(store', tz, selectedDate)
    /\ localStorage' = saveStore(localStorage, store')
    /\ steps' = steps + 1
    /\ prompt' = "none"
    /\ toggled' = toggled \cup {selectedDate}
    /\ UNCHANGED <<caches, worker, selectedDate, tz, probe, mounted, download>>

\* "Clear <selectedDate>" onClick, re-render, save effect.
ClearSelected ==
  /\ mounted
  /\ steps < MaxSteps
  /\ store' = clearDate(store, selectedDate)
  /\ view' = Render(store', tz, selectedDate)
  /\ localStorage' = saveStore(localStorage, store')
  /\ steps' = steps + 1
  /\ prompt' = "none"
  /\ toggled' = toggled \ {selectedDate}
  /\ UNCHANGED <<caches, worker, selectedDate, tz, probe, mounted, download>>

ResetAllAnswer_noPrompt(confirmed) ==
  /\ mounted
  /\ steps < MaxSteps
  /\ prompt' = IF confirmed THEN "accepted" ELSE "declined"
  /\ store' = EmptyStore
  /\ view' = Render(store', tz, selectedDate)
  /\ localStorage' = saveStore(localStorage, store')
  /\ toggled' = {}
  /\ steps' = steps + 1
  /\ UNCHANGED <<caches, worker, selectedDate, tz, probe, mounted, download>>

\* "Reset All" onClick with the user's answer to confirm(...): a declined
\* prompt returns before setStore, so nothing re-renders and nothing is saved.
ResetAllAnswer(confirmed) ==
  /\ mounted
  /\ steps < MaxSteps
  /\ prompt' = IF confirmed THEN "accepted" ELSE "declined"
  /\ IF confirmed
     THEN /\ store' = EmptyStore
          /\ view' = Render(store', tz, selectedDate)
          /\ localStorage' = saveStore(localStorage, store')
          /\ toggled' = {}
     ELSE UNCHANGED <<store, view, localStorage, toggled>>
  /\ steps' = steps + 1
  /\ UNCHANGED <<caches, worker, selectedDate, tz, probe, mounted, download>>

ResetAll == \E confirmed \in BOOLEAN : ResetAllAnswer(confirmed)

\* Date input onChange / "Today" onClick / date strip onClick: the store is
\* the same object, so the save effect does not run.
SelectDate ==
  \E d \in Dates :
    /\ mounted
    /\ steps < MaxSteps
    /\ selectedDate' = d
    /\ view' = Render(store, tz, d)
    /\ steps' = steps + 1
    /\ prompt' = "none"
    /\ UNCHANGED <<caches, worker, store, tz, probe, localStorage, mounted, toggled, download>>

Next == Mount \/ ToggleCheck \/ ClearSelected \/ ResetAll \/ SelectDate

Spec == Init /\ [][Next]_vars

(* ------------- The session that starts with an empty store ------------ *)
FreshInit ==
  InitFrom({ls \in InitialStorages : loadStore(Readable(ls)) = EmptyStore})

FreshSpec == FreshInit /\ [][Next]_vars

(* ------ The session whose loaded records hold only catalog keys ------- *)
CleanInit ==
  InitFrom({ls \in InitialStorages :
              \A d \in DOMAIN loadStore(Readable(ls)).byDate :
                DOMAIN loadStore(Readable(ls)).byDate[d].checks
                  \subseteq CatalogKeys})

CleanSpec == CleanInit /\ [][Next]_vars

(* ----------------- The variants with an Export CSV button ------------- *)
\* "Export CSV" onClick: exportCSV(store.byDate) downloads the file.
ExportCSV ==
  /\ mounted
  /\ steps < MaxSteps
  /\ download' = exportCSV(store.byDate)
  /\ steps' = steps + 1
  /\ prompt' = "none"
  /\ UNCHANGED <<caches, worker, store, selectedDate, tz, view, probe, localStorage,
                 mounted, toggled>>

ExportNext == Next \/ ExportCSV

\* exportCSV reads no clock, so one time zone suffices here.
ExportInit ==
  /\ Init
  /\ tz.name = "UTC"

ExportSpec == ExportInit /\ [][ExportNext]_vars

(* ---------------- The component variants of part_002 ------------------ *)
\* "dateInput" is the component modelled above; "stripOnly", "todayStrip"
\* and "inputStrip" are the three components with a scrollable date strip.
Variants == {"dateInput", "stripOnly", "todayStrip", "inputStrip"}

\* The controls and displays a variant renders.
Offers(v) ==
  CASE v = "dateInput" ->
         {"dateInput", "today", "checkbox", "progress", "clear", "reset"}
    [] v = "stripOnly" -> {"strip"}
    [] v = "todayStrip" ->
         {"today", "strip", "checkbox", "progress", "clear", "export",
          "reset"}
    [] v = "inputStrip" ->
         {"dateInput", "today", "strip", "checkbox", "progress", "clear",
          "export", "reset"}

\* The habit logic as written in the date-strip components.
Strip_toggleCheck(prev, sel, habitId, itemId) ==
  LET key == CheckKey(habitId, itemId)
      existing == IF HasRecord(prev, sel) THEN prev.byDate[sel].checks
                  ELSE EmptyChecks
      nextChecks == (key :> ~(key \in DOMAIN existing /\ existing[key]))
                    @@ existing
  IN  [byDate |-> (sel :> [date |-> sel, checks |-> nextChecks])
                  @@ prev.byDate]

Strip_clearDate(prev, sel) ==
  LET next == prev.byDate
  IN  [byDate |-> [d \in {x \in DOMAIN next : x # sel} |-> next[d]]]

\* "Reset All" after the prompt is accepted: setStore({ byDate: {} }).
Strip_resetStore == [byDate |-> <<>>]

Strip_progressForHabit(s, sel, habitId) ==
  LET perHabit == getCountsForDate(s, sel).perHabit
      done == GetOr0(perHabit, habitId)
      cfg == FindHabit(habitId)
      pct == MathMin(100, MathRound(done * 100, Len(cfg.items)))
      goalMet == done >= cfg.dailyGoal
  IN  [done |-> done, total |-> Len(cfg.items), pct |-> pct,
       goalMet |-> goalMet]

Strip_totalPointsToday(s, sel) ==
  getCountsForDate(s, sel).total * POINTS_PER_ITEM

Strip_overallGoalMet_gt(s, dateKey) ==
  \A i \in DOMAIN HABITS :
    GetOr0(getCountsForDate(s, dateKey).perHabit, HABITS[i].id)
      > HABITS[i].dailyGoal

\* HABITS.every(h => (getCountsForDate(dateKey).perHabit.get(h.id) || 0)
\*                   >= h.dailyGoal)
Strip_overallGoalMet(s, dateKey) ==
  \A i \in DOMAIN HABITS :
    GetOr0(getCountsForDate(s, dateKey).perHabit, HABITS[i].id)
      >= HABITS[i].dailyGoal

RECURSIVE Strip_StreakWalk(_, _, _, _)
Strip_StreakWalk(s, z, d, streak) ==
  IF Strip_overallGoalMet(s, keyFor(d))
  THEN Strip_StreakWalk(s, z, prevDate(z, d, 1), streak + 1)
  ELSE streak

Strip_overallStreak(s, z, sel) == Strip_StreakWalk(s, z, NewDate(sel), 0)

Strip_earnedBadges(streak) ==
  LET kept == SelectSeq(BADGES, LAMBDA b : streak >= b.threshold)
  IN  [i \in DOMAIN kept |-> kept[i].id]

\* What one render of a date-strip component shows.
Strip_Render(s, z, sel) ==
  LET st == Strip_overallStreak(s, z, sel)
  IN  [progress |-> [h \in HabitIds |-> Strip_progressForHabit(s, sel, h)],
       points |-> Strip_totalPointsToday(s, sel),
       streak |-> st,
       badges |-> Strip_earnedBadges(st)]

(* ------------------- Badge evaluator on its own ----------------------- *)
BadgeInit ==
  /\ tz \in {z \in TimeZones : z.name = "UTC"}
  /\ localStorage = NoItems
  /\ store = EmptyStore
  /\ selectedDate = todayKey
  /\ view = Render(store, tz, selectedDate)
  /\ steps = 0
  /\ probe = NoProbe
  /\ mounted = FALSE
  /\ prompt = "none"
  /\ toggled = {}
  /\ download = <<>>
  /\ caches = NoCaches
  /\ worker = NoWorker

\* earnedBadges recomputed for two streak values.
EvalBadges ==
  \E a \in 0..MaxStreak, b \in 0..MaxStreak :
    /\ probe' = [s1 |-> a, s2 |-> b,
                 b1 |-> earnedBadges(a), b2 |-> earnedBadges(b)]
    /\ UNCHANGED <<caches, worker, store, selectedDate, tz, view, steps, localStorage,
                   mounted, prompt, toggled, download>>

BadgeNext == EvalBadges

BadgeSpec == BadgeInit /\ [][BadgeNext]_vars

(* ----------------------- loadStore on its own ------------------------- *)
\* Storage contents loadStore may meet: access denied or not, the app's
\* entry in any of its forms, with or without another site entry beside it.
LoadInputs ==
  {[denied |-> b, items |-> it] :
     b \in BOOLEAN,
     it \in InitialStorages \cup
            {ls @@ ("theme" :> TextGarbage) : ls \in InitialStorages}}

\* loadStore() called on one storage content.
EvalLoad ==
  \E ls \in LoadInputs :
    /\ probe' = [in |-> ls, out |-> loadStoreOutcome(ls)]
    /\ UNCHANGED <<caches, worker, store, selectedDate, tz, view, steps, localStorage,
                   mounted, prompt, toggled, download>>

LoadNext == EvalLoad

LoadSpec == BadgeInit /\ [][LoadNext]_vars

(* ------------- The streak loop, one iteration at a time --------------- *)
\* Days of daylight time in Africa/Casablanca between the clocks going
\* forward on 20 August 2012 and back on 30 September 2012, both at 02:00 UTC.
DaylightDays == 41

\* Zones of the calendar 1..WalkDays: day 2 is 20 August 2012.
WalkZones ==
  { [name |-> "UTC", off |-> 0, kind |-> "none", spring |-> 0, at |-> 0],
    [name |-> "Africa/Casablanca", off |-> 0, kind |-> "summer",
     spring |-> 2 * 24 + 2, at |-> (2 + DaylightDays) * 24 + 2] }

\* A store whose days a..b meet every goal; with `older`, the day before a
\* holds a record that meets no goal; with `hole`, day b - 1 has no record.
RunStore(a, b, older, hole) ==
  [byDate |->
     [d \in ((a..b) \cup (IF older /\ a > 1 THEN {a - 1} ELSE {}))
              \ (IF hole /\ a < b - 1 THEN {b - 1} ELSE {}) |->
        [date |-> d, checks |-> IF d >= a THEN MetChecks ELSE StaleChecks]]]

\* overallStreak is entered: streak = 0, d = new Date(selectedDate).
WalkInit ==
  /\ tz \in WalkZones
  /\ localStorage = NoItems
  /\ \E a \in 1..WalkDays, b \in 1..WalkDays, older, hole \in BOOLEAN :
       /\ a <= b
       /\ store = RunStore(a, b, older, hole)
       /\ selectedDate = b
  /\ view = Render(store, tz, selectedDate)
  /\ steps = 0
  /\ probe = [d |-> NewDate(selectedDate), streak |-> 0, iters |-> 0,
              running |-> TRUE]
  /\ mounted = FALSE
  /\ prompt = "none"
  /\ toggled = {}
  /\ download = <<>>
  /\ caches = NoCaches
  /\ worker = NoWorker

\* One iteration of while (true): test keyFor(d), then step back or break.
\* `iters` counts the iterations.
WalkIter ==
  /\ probe.running
  /\ probe' = IF overallGoalMet(store, keyFor(probe.d))
              THEN [d |-> prevDate(tz, probe.d, 1),
                    streak |-> probe.streak + 1,
                    iters |-> probe.iters + 1, running |-> TRUE]
              ELSE [d |-> probe.d, streak |-> probe.streak,
                    iters |-> probe.iters + 1, running |-> FALSE]
  /\ UNCHANGED <<caches, worker, store, selectedDate, tz, view, steps, localStorage,
                 mounted, prompt, toggled, download>>

WalkNext == WalkIter

WalkSpec == WalkInit /\ [][WalkNext]_vars

(* ------------------ The service worker's life cycle ------------------- *)
\* Caches an earlier deployment may have left behind.
LeftoverCaches ==
  {NoCaches} \cup
  {(n :> [u \in ASSETS |-> "old"]) :
     n \in {"habit-tracker-v1", "habit-tracker-v4"}}

\* The browser has downloaded one of the worker scripts.
WorkerInit ==
  /\ tz \in {z \in TimeZones : z.name = "UTC"}
  /\ localStorage = NoItems
  /\ store = EmptyStore
  /\ selectedDate = todayKey
  /\ view = Render(store, tz, selectedDate)
  /\ steps = 0
  /\ probe = NoProbe
  /\ mounted = FALSE
  /\ prompt = "none"
  /\ toggled = {}
  /\ download = <<>>
  /\ caches \in LeftoverCaches
  /\ \E script \in Scripts :
       worker = [script |-> script, phase |-> "parsed", answer |-> NoAnswer]

\* "install": caches.open(CACHE).then(c => c.addAll(ASSETS)); addAll stores
\* all assets or, when a request fails, none, and the install fails.
Install ==
  \E net \in NetOutcomes :
    /\ worker.phase = "parsed"
    /\ caches' =
         IF net = "fail" THEN CachesOpen(caches, CACHE(worker.script))
         ELSE LET opened == CachesOpen(caches, CACHE(worker.script))
              IN  [opened EXCEPT ![CACHE(worker.script)] =
                     [u \in DOMAIN @ \cup ASSETS |->
                        IF u \in ASSETS THEN net ELSE @[u]]]
    /\ worker' = [worker EXCEPT
                   !.phase = IF net = "fail" THEN "redundant" ELSE "installed"]
    /\ UNCHANGED <<store, selectedDate, tz, view, steps, probe, localStorage,
                   mounted, prompt, toggled, download>>

\* "activate": part_000 deletes every cache but its own; the other scripts
\* register no activate listener.
Activate ==
  /\ worker.phase = "installed"
  /\ caches' =
       IF worker.script = "part_000"
       THEN [n \in DOMAIN caches \cap {CACHE(worker.script)} |-> caches[n]]
       ELSE caches
  /\ worker' = [worker EXCEPT !.phase = "active"]
  /\ UNCHANGED <<store, selectedDate, tz, view, steps, probe, localStorage,
                 mounted, prompt, toggled, download>>

\* "fetch" for one request of the page, with the outcome of the network.
FetchEvent(url, net) ==
  /\ worker.phase = "active"
  /\ LET r == IF worker.script = "part_000"
              THEN fetchNetworkFirst(caches, worker.script, url, net)
              ELSE fetchCacheFirst(caches, worker.script, url, net)
     IN  /\ caches' = r.caches
         /\ worker' = [worker EXCEPT !.answer = r.answer]
  /\ UNCHANGED <<store, selectedDate, tz, view, steps, probe, localStorage,
                 mounted, prompt, toggled, download>>

Fetch == \E url \in Urls, net \in NetOutcomes : FetchEvent(url, net)

WorkerNext == Install \/ Activate \/ Fetch

WorkerSpec == WorkerInit /\ [][WorkerNext]_vars

(* ------------------------ Reference notions --------------------------- *)
\* Number of keys of habit h that are true in the record of date d.
CheckedCount(s, d, h) ==
  IF d \in DOMAIN s.byDate
  THEN Cardinality({k \in DOMAIN s.byDate[d].checks :
                      s.byDate[d].checks[k] /\ k[1] = h})
  ELSE 0

\* Every habit reaches its daily goal on date d (goals 1, 2, 2).
DayQualifies(s, d) ==
  /\ CheckedCount(s, d, "smoking") >= 1
  /\ CheckedCount(s, d, "eating") >= 2
  /\ CheckedCount(s, d, "exercise") >= 2

\* Length of the maximal run of qualifying calendar days D, D-1, D-2, ...
RunLength(s, D) ==
  CHOOSE n \in 0..D :
    /\ \A i \in 0..(n - 1) : DayQualifies(s, D - i)
    /\ ~DayQualifies(s, D - n)

\* Nearest integer to 100 * n / len, halves upward.
NearestPercent(n, len) ==
  CHOOSE r \in ((100 * n) \div len)..((100 * n) \div len + 1) :
    /\ 2 * r * len - len <= 200 * n
    /\ 200 * n < 2 * r * len + len

SeqRange(q) == {q[i] : i \in DOMAIN q}

\* The eight keys habitId.itemId of the static catalog.
EightKeys ==
  { <<"smoking", "smoke_free">>, <<"smoking", "mindful_breaks">>,
    <<"eating", "home_cooked">>, <<"eating", "fruits_veggies">>,
    <<"eating", "no_sugar">>,
    <<"exercise", "workout_30">>, <<"exercise", "walk_8k">>,
    <<"exercise", "stretch_10">> }

\* Keys whose value is true in the record of date d.
TrueKeys(s, d) ==
  IF d \in DOMAIN s.byDate
  THEN {k \in DOMAIN s.byDate[d].checks : s.byDate[d].checks[k]}
  ELSE {}

\* The store without the keys that name no catalog item.
StripStale(s) ==
  [byDate |-> [d \in DOMAIN s.byDate |->
     [date |-> s.byDate[d].date,
      checks |-> [k \in DOMAIN s.byDate[d].checks \cap EightKeys |->
                    s.byDate[d].checks[k]]]]]

\* Number of dates of the store on which every habit reaches its goal.
QualifyingDates(s) ==
  Cardinality({d \in DOMAIN s.byDate : DayQualifies(s, d)})

\* Every check that is true in s is true in t.
MoreChecked(s, t) ==
  \A d \in DOMAIN s.byDate : TrueKeys(s, d) \subseteq TrueKeys(t, d)

\* The entry loadStore reads, null when the key is absent.
EntryOf(ls) ==
  IF "habit-tracker-v1" \in DOMAIN ls.items
  THEN ls.items["habit-tracker-v1"] ELSE ItemNull

(* ------------------------------ Claims -------------------------------- *)
\* C1: the streak shown for the selected date D equals the length of the
\* maximal run of consecutive calendar days D, D-1, ... that all meet the
\* overall goal (0 when D itself does not).
C1_StreakIsMaximalRun == view.streak = RunLength(store, selectedDate)

\* C2: whenever the selected date does not meet the overall goal, the shown
\* streak is 0 and no badge is unlocked, whatever the earlier days hold.
C2_NoStreakWhenGoalNotMet ==
  ~overallGoalMet(store, selectedDate) =>
     (view.streak = 0 /\ view.badges = <<>>)

C2_Witness ==
  /\ steps >= 1
  /\ selectedDate >= 3
  /\ ~overallGoalMet(store, selectedDate)
  /\ DayQualifies(store, selectedDate - 1)
  /\ DayQualifies(store, selectedDate - 2)
  /\ view.streak = 0

\* C3: if the selected day D meets all goals and day D-1 does not, the streak
\* at D is exactly 1, whatever is recorded before D-1.
C3_StreakOneAfterGap ==
  (DayQualifies(store, selectedDate) /\ ~DayQualifies(store, selectedDate - 1))
    => view.streak = 1

\* C4: for every habit, goalMet of the selected date is true exactly when the
\* number of checked items of the habit is at least its dailyGoal; equal to
\* the goal gives true, one below the goal gives false.
C4_GoalMetIffDoneAtLeastGoal ==
  \A i \in DOMAIN HABITS :
    LET p == view.progress[HABITS[i].id]
        n == CheckedCount(store, selectedDate, HABITS[i].id)
    IN  /\ p.done = n
        /\ p.goalMet <=> (n >= HABITS[i].dailyGoal)
        /\ (n = HABITS[i].dailyGoal) => p.goalMet
        /\ (n = HABITS[i].dailyGoal - 1) => ~p.goalMet

C4_Witness ==
  /\ steps >= 1
  /\ view.progress["eating"].done = 2
  /\ view.progress["eating"].goalMet
  /\ view.progress["exercise"].done = 1
  /\ ~view.progress["exercise"].goalMet

\* C5: overallGoalMet of a date is true iff smoking has >= 1, eating >= 2 and
\* exercise >= 2 checked items on that date.
C5_OverallGoalMetIffAllHabits ==
  \A d \in Dates :
    overallGoalMet(store, d) <=>
      /\ CheckedCount(store, d, "smoking") >= 1
      /\ CheckedCount(store, d, "eating") >= 2
      /\ CheckedCount(store, d, "exercise") >= 2

C5_Witness ==
  /\ steps >= 1
  /\ CheckedCount(store, selectedDate, "smoking") = 0
  /\ CheckedCount(store, selectedDate, "eating") >= 2
  /\ CheckedCount(store, selectedDate, "exercise") >= 2
  /\ ~overallGoalMet(store, selectedDate)
  /\ \E d \in Dates : overallGoalMet(store, d)

\* C6: every habit's percent is min(100, round(100 * done / itemCount)),
\* halves rounded upward: 1/2 -> 50, 1/3 -> 33, 2/3 -> 67, full -> 100.
C6_PercentIsRoundedRatio ==
  \A i \in DOMAIN HABITS :
    LET p == view.progress[HABITS[i].id]
        n == CheckedCount(store, selectedDate, HABITS[i].id)
        len == Len(HABITS[i].items)
        r == NearestPercent(n, len)
    IN  /\ p.pct = IF r > 100 THEN 100 ELSE r
        /\ (n = 1 /\ len = 2) => p.pct = 50
        /\ (n = 1 /\ len = 3) => p.pct = 33
        /\ (n = 2 /\ len = 3) => p.pct = 67
        /\ (n = len) => p.pct = 100

C6_Witness ==
  /\ steps >= 1
  /\ view.progress["smoking"].pct = 50
  /\ view.progress["eating"].pct = 33
  /\ view.progress["exercise"].pct = 67

\* C7: every habit's percent is an integer between 0 and 100.
C7_PercentInRange ==
  \A h \in HabitIds : view.progress[h].pct \in 0..100

C7_Witness ==
  /\ steps >= 1
  /\ CheckedCount(store, selectedDate, "smoking") = 3
  /\ view.progress["smoking"].pct = 100

\* C8: when the selected date has no record, every habit shows done 0,
\* percent 0 and goal not met, the point total is 0 and the streak is 0.
C8_MissingRecordAllZero ==
  ~HasRecord(store, selectedDate) =>
    /\ \A h \in HabitIds :
         /\ view.progress[h].done = 0
         /\ view.progress[h].pct = 0
         /\ ~view.progress[h].goalMet
    /\ view.points = 0
    /\ view.streak = 0

C8_Witness ==
  /\ steps >= 1
  /\ ~HasRecord(store, selectedDate)
  /\ selectedDate >= 2
  /\ DayQualifies(store, selectedDate - 1)
  /\ view.points = 0
  /\ view.streak = 0

\* C9: the earned badges are exactly bronze_3 from streak 3, silver_7 from 7,
\* gold_14 from 14 and diamond_30 from 30.
C9_BadgesByThreshold ==
  SeqRange(probe.b1) =
    (IF probe.s1 >= 3 THEN {"bronze_3"} ELSE {}) \cup
    (IF probe.s1 >= 7 THEN {"silver_7"} ELSE {}) \cup
    (IF probe.s1 >= 14 THEN {"gold_14"} ELSE {}) \cup
    (IF probe.s1 >= 30 THEN {"diamond_30"} ELSE {})

C9_Witness ==
  /\ probe.s1 = 30
  /\ probe.b1 = <<"bronze_3", "silver_7", "gold_14", "diamond_30">>
  /\ probe.s2 = 29
  /\ probe.b2 = <<"bronze_3", "silver_7", "gold_14">>

\* C10: an unlocked badge implies every badge of lower threshold is unlocked,
\* and a longer streak unlocks a superset of a shorter streak's badges.
C10_BadgesDownwardClosed ==
  /\ \A i \in DOMAIN BADGES : \A j \in DOMAIN BADGES :
        (BADGES[j].threshold < BADGES[i].threshold
           /\ BADGES[i].id \in SeqRange(probe.b1))
          => BADGES[j].id \in SeqRange(probe.b1)
  /\ (probe.s1 <= probe.s2) => (SeqRange(probe.b1) \subseteq SeqRange(probe.b2))

C10_Witness ==
  /\ probe.s1 = 7
  /\ probe.s2 = 14
  /\ SeqRange(probe.b1) = {"bronze_3", "silver_7"}
  /\ SeqRange(probe.b2) = {"bronze_3", "silver_7", "gold_14"}

\* C11: three consecutive goal-meeting days D1..D3 after a non-qualifying D0
\* give streak 3 and exactly bronze_3 with D3 selected; a non-qualifying D4
\* selected gives streak 0 and no badge.
C11_ThreeDayStreakBronze ==
  \A d \in Dates :
    ( /\ DayQualifies(store, d) /\ DayQualifies(store, d - 1)
      /\ DayQualifies(store, d - 2) /\ ~DayQualifies(store, d - 3)
      /\ ~DayQualifies(store, d + 1) )
    => /\ (selectedDate = d) =>
            (view.streak = 3 /\ view.badges = <<"bronze_3">>)
       /\ (selectedDate = d + 1) =>
            (view.streak = 0 /\ view.badges = <<>>)

\* C12: a day whose true checks are exactly smoke_free, home_cooked,
\* no_sugar, workout_30 and walk_8k shows smoking 50% met, eating 67% met,
\* exercise 67% met, and meets the overall goal.
C12_ExampleDay ==
  (TrueKeys(store, selectedDate) =
     { <<"smoking", "smoke_free">>, <<"eating", "home_cooked">>,
       <<"eating", "no_sugar">>, <<"exercise", "workout_30">>,
       <<"exercise", "walk_8k">> })
  => /\ view.progress["smoking"] =
          [done |-> 1, total |-> 2, pct |-> 50, goalMet |-> TRUE]
     /\ view.progress["eating"] =
          [done |-> 2, total |-> 3, pct |-> 67, goalMet |-> TRUE]
     /\ view.progress["exercise"] =
          [done |-> 2, total |-> 3, pct |-> 67, goalMet |-> TRUE]
     /\ overallGoalMet(store, selectedDate)

C12_Witness ==
  /\ steps >= 2
  /\ TrueKeys(store, selectedDate) =
       { <<"smoking", "smoke_free">>, <<"eating", "home_cooked">>,
         <<"eating", "no_sugar">>, <<"exercise", "workout_30">>,
         <<"exercise", "walk_8k">> }
  /\ Cardinality(DOMAIN store.byDate[selectedDate].checks) = 6
  /\ view.progress["eating"].pct = 67

\* C13: from the empty store, a date has a record iff a checkbox was toggled
\* with that date selected since its last clear and the last confirmed reset.
C13_RecordIffToggled == DOMAIN store.byDate = toggled

C13_Witness ==
  /\ steps >= 2
  /\ selectedDate # todayKey
  /\ DOMAIN store.byDate = {selectedDate}

\* C14: a declined Reset All leaves the store and the persisted entry as they
\* were; an accepted one leaves the empty store; no other step empties a
\* store of several dates.
C14_ResetOnlyWhenConfirmed ==
  [][ /\ (prompt' = "declined") =>
           (store' = store /\ localStorage' = localStorage)
      /\ (prompt' = "accepted") => (DOMAIN store'.byDate = {})
      /\ (DOMAIN store'.byDate = {} /\ Cardinality(DOMAIN store.byDate) >= 2)
           => prompt' = "accepted" ]_vars

C14_Witness ==
  /\ prompt = "declined"
  /\ Cardinality(DOMAIN store.byDate) >= 2
  /\ localStorage["habit-tracker-v1"] = JSONstringify(store)

\* C15: once the component is mounted, between user actions the entry under
\* 'habit-tracker-v1' is the serialisation of the in-memory store.
C15_PersistedEqualsStore ==
  mounted =>
    /\ "habit-tracker-v1" \in DOMAIN localStorage
    /\ localStorage["habit-tracker-v1"] =
         [kind |-> "json",
          val |-> [t |-> "object",
                   byDate |-> [t |-> "object", map |-> store.byDate]]]

C15_Witness ==
  /\ steps >= 1
  /\ HasRecord(store, selectedDate)
  /\ <<"smoking", "smoke_free">> \in DOMAIN store.byDate[selectedDate].checks
  /\ ~store.byDate[selectedDate].checks[<<"smoking", "smoke_free">>]
  /\ localStorage["habit-tracker-v1"] = JSONstringify(store)

\* C16 as stated: loadStore returns the empty store when the entry is
\* missing, empty, unparsable, unreadable or parses to a value without a
\* byDate field, and the parsed value in every other case; it never throws.
C16_LoadStoreAsStated ==
  ("in" \in DOMAIN probe) =>
    LET e == EntryOf(probe.in)
        emptyCase == \/ probe.in.denied
                     \/ e.kind \in {"null", "empty", "garbage"}
                     \/ e.val.byDate.t = "undefined"
    IN  /\ ~probe.out.threw
        /\ probe.out.value = IF emptyCase THEN EmptyStoreValue ELSE e.val

\* C16 amended: loadStore returns the empty store when the entry is missing,
\* empty, unparsable, unreadable or parses to a value whose byDate is absent
\* or falsy (null, 0), and the parsed value otherwise; it never throws.
C16_LoadStoreFalsyByDate ==
  ("in" \in DOMAIN probe) =>
    LET e == EntryOf(probe.in)
        emptyCase == \/ probe.in.denied
                     \/ e.kind \in {"null", "empty", "garbage"}
                     \/ e.val.byDate.t \in {"undefined", "null", "number"}
    IN  /\ ~probe.out.threw
        /\ probe.out.value = IF emptyCase THEN EmptyStoreValue ELSE e.val

C16_Witness ==
  /\ "in" \in DOMAIN probe
  /\ ~probe.in.denied
  /\ EntryOf(probe.in) = TextJson(ParsedObject(JsNull))
  /\ probe.out = [threw |-> FALSE, value |-> EmptyStoreValue]

\* C17: from a store whose check keys are all catalog keys, every record's
\* checks hold only the eight catalog keys.
C17_OnlyCatalogKeys ==
  \A d \in DOMAIN store.byDate :
    DOMAIN store.byDate[d].checks \subseteq EightKeys

C17_Witness ==
  /\ steps >= 1
  /\ HasRecord(store, selectedDate)
  /\ Cardinality(DOMAIN store.byDate[selectedDate].checks) = 6

\* C18: a check key naming no catalog item changes nothing shown: progress,
\* points, streak and badges equal those of the store without such keys.
C18_StaleKeysIgnored ==
  view = Render(StripStale(store), tz, selectedDate)

\* C19: the exported file is one header line followed by exactly
\* (number of recorded dates) x 8 data lines.
C19_CsvRowCount ==
  [][ ExportCSV =>
        /\ download'[1] = <<"date", "habitId", "itemId", "checked">>
        /\ Len(download') = 1 + 8 * Cardinality(DOMAIN store.byDate) ]_vars

\* C20: the exported file starts with the header date,habitId,itemId,checked
\* and has, for every recorded date and catalog item, exactly one line, whose
\* checked field is 1 iff the item's key is true in the date's record.
C20_CsvOneRowPerItem ==
  [][ ExportCSV =>
        /\ download'[1] = <<"date", "habitId", "itemId", "checked">>
        /\ \A d \in DOMAIN store.byDate : \A k \in EightKeys :
             LET hits == {r \in 2..Len(download') :
                            /\ download'[r][1] = ToString(d)
                            /\ download'[r][2] = k[1]
                            /\ download'[r][3] = k[2]}
             IN  /\ Cardinality(hits) = 1
                 /\ \A r \in hits :
                      download'[r][4] =
                        IF k \in TrueKeys(store, d) THEN "1" ELSE "0" ]_vars

C20_Witness ==
  \E d \in DOMAIN store.byDate :
    /\ <<ToString(d), "smoking", "smoke_free", "1">> \in SeqRange(download)
    /\ <<ToString(d), "eating", "fruits_veggies", "0">> \in SeqRange(download)
    /\ <<ToString(d), "exercise", "stretch_10", "0">> \in SeqRange(download)
    /\ <<"eating", "fruits_veggies">> \in DOMAIN store.byDate[d].checks
    /\ <<"exercise", "stretch_10">> \notin DOMAIN store.byDate[d].checks

\* C21: the streak loop stops at the first non-qualifying date it tests, the
\* tested date strictly decreases from one iteration to the next, and the
\* loop makes at most (number of qualifying dates + 1) iterations.
C21_WalkDecreasesAndStops ==
  [][ WalkIter =>
        /\ probe'.running = DayQualifies(store, keyFor(probe.d))
        /\ probe'.running => keyFor(probe'.d) < keyFor(probe.d)
        /\ probe'.iters <= QualifyingDates(store) + 1 ]_vars

\* C23: for every date key K and every zone, one backward step from
\* new Date(K) lands on the calendar day K - 1.
C23_StepIsPreviousDay ==
  \A K \in Dates : keyFor(prevDate(tz, NewDate(K), 1)) = K - 1

\* C25: the points shown are 10 x the number of true check keys of the
\* selected date's record; when the store holds only catalog keys they are
\* a multiple of 10 in 0..80 and no habit's done count exceeds its item count.
C25_PointsTenPerTrueKey ==
  /\ view.points = 10 * Cardinality(TrueKeys(store, selectedDate))
  /\ (\A d \in DOMAIN store.byDate :
        DOMAIN store.byDate[d].checks \subseteq EightKeys)
     => /\ view.points \in {10 * n : n \in 0..8}
        /\ \A h \in {"smoking", "eating", "exercise"} :
             view.progress[h].done <= view.progress[h].total

C25_Witness ==
  /\ steps = 2
  /\ toggled = {selectedDate}
  /\ view.points = 70
  /\ view.progress["exercise"].done = 3
  /\ DOMAIN store.byDate[selectedDate].checks \subseteq EightKeys

\* C26: toggling one item twice with the same date selected gives back the
\* item's checked state and every derived value, and leaves the date's
\* record in the store with the key present (false if it was absent).
C26_DoubleToggleRestores ==
  \A i \in DOMAIN HABITS : \A j \in DOMAIN HABITS[i].items :
    LET h == HABITS[i].id
        it == HABITS[i].items[j]
        k == <<h, it>>
        twice == toggleCheck(toggleCheck(store, selectedDate, h, it),
                             selectedDate, h, it)
    IN  /\ Render(twice, tz, selectedDate) = view
        /\ selectedDate \in DOMAIN twice.byDate
        /\ k \in DOMAIN twice.byDate[selectedDate].checks
        /\ twice.byDate[selectedDate].checks[k] =
             (k \in TrueKeys(store, selectedDate))
        /\ \A d \in DOMAIN store.byDate : \A x \in DOMAIN store.byDate[d].checks :
             /\ d \in DOMAIN twice.byDate
             /\ x \in DOMAIN twice.byDate[d].checks
             /\ twice.byDate[d].checks[x] = store.byDate[d].checks[x]

C26_Witness ==
  /\ steps = 2
  /\ toggled = {selectedDate}
  /\ DOMAIN store.byDate = {selectedDate}
  /\ \E k \in EightKeys :
       /\ DOMAIN store.byDate[selectedDate].checks = {k}
       /\ ~store.byDate[selectedDate].checks[k]
  /\ view.points = 0

\* C27: a checkbox toggle with date D selected (the step that puts D among
\* the toggled dates and replaces the store) flips the boolean of one
\* catalog key in D's record and changes nothing else: other dates' records,
\* the other keys of D's record and the selected date stay as they were.
C27_ToggleFrame ==
  [][ (store' # store /\ selectedDate \in toggled') =>
        /\ selectedDate' = selectedDate
        /\ DOMAIN store'.byDate = DOMAIN store.byDate \cup {selectedDate}
        /\ \A d \in DOMAIN store.byDate \ {selectedDate} :
             store'.byDate[d] = store.byDate[d]
        /\ \E k \in EightKeys :
             LET old == IF selectedDate \in DOMAIN store.byDate
                        THEN store.byDate[selectedDate].checks
                        ELSE EmptyChecks
                 new == store'.byDate[selectedDate].checks
             IN  /\ DOMAIN new = DOMAIN old \cup {k}
                 /\ new[k] = ~(k \in DOMAIN old /\ old[k])
                 /\ \A x \in DOMAIN old \ {k} : new[x] = old[x] ]_vars

C27_Witness ==
  /\ steps = 1
  /\ toggled = {selectedDate}
  /\ Cardinality(DOMAIN store.byDate) = 3
  /\ Cardinality(DOMAIN store.byDate[selectedDate].checks) = 6
  /\ Cardinality(TrueKeys(store, selectedDate)) = 4

\* C28: Clear with date D selected removes D's record and nothing else: the
\* other records and the selected date are unchanged, and when D has no
\* record the store is unchanged.
C28_ClearFrame ==
  [][ ClearSelected =>
        /\ selectedDate' = selectedDate
        /\ DOMAIN store'.byDate = DOMAIN store.byDate \ {selectedDate}
        /\ \A d \in DOMAIN store'.byDate : store'.byDate[d] = store.byDate[d]
        /\ (selectedDate \notin DOMAIN store.byDate) => store' = store ]_vars

C28_Witness ==
  /\ steps = 1
  /\ toggled = {}
  /\ prompt = "none"
  /\ selectedDate \notin DOMAIN store.byDate
  /\ Cardinality(DOMAIN store.byDate) = 2
  /\ localStorage["habit-tracker-v1"] = JSONstringify(store)

\* C29: a step that only adds true checks never lowers the streak of any
\* reference date, and a step that only removes true checks (a toggle off,
\* a clear) never raises it.
C29_StreakMonotone ==
  [][ (store' # store) =>
        /\ MoreChecked(store, store') =>
             \A ref \in Dates :
               overallStreak(store', tz, ref) >= overallStreak(store, tz, ref)
        /\ MoreChecked(store', store) =>
             \A ref \in Dates :
               overallStreak(store', tz, ref) <= overallStreak(store, tz, ref)
    ]_vars

C29_Witness ==
  /\ steps = 2
  /\ toggled = {selectedDate}
  /\ store.byDate[selectedDate].checks = MetChecks
  /\ view.streak >= 1

\* C30: the first step after initialisation is the write-back of the loaded
\* store, before any user action: an entry that was unparsable or without
\* byDate is replaced by the serialised empty store, and the persisted value
\* equals the in-memory store from then on.
C30_WriteBackOnInit ==
  [][ /\ ~mounted => steps' = 0
      /\ (~mounted /\ mounted') =>
           /\ store' = store
           /\ localStorage'["habit-tracker-v1"] = JSONstringify(store)
           /\ (EntryOf(Readable(localStorage)).kind # "json"
                \/ EntryOf(Readable(localStorage)).val.byDate.t = "undefined")
              => localStorage'["habit-tracker-v1"] = JSONstringify(EmptyStore)
      /\ mounted' => localStorage'["habit-tracker-v1"] = JSONstringify(store')
    ]_vars

C30_Witness ==
  /\ mounted
  /\ steps = 0
  /\ store = EmptyStore
  /\ localStorage = ("habit-tracker-v1" :> JSONstringify(EmptyStore))

C24_FetchStrategy ==
  [][ \A url \in Urls : \A net \in {"fail", "old", "new"} :
        FetchEvent(url, net) =>
          LET a == worker'.answer
              cached == {caches[n][url] :
                           n \in {m \in DOMAIN caches : url \in DOMAIN caches[m]}}
          IN  IF worker.script = "part_000"
              THEN /\ (net # "fail") =>
                        /\ a.from = "network" /\ a.body = net
                        /\ "habit-tracker-v8" \in DOMAIN caches'
                        /\ url \in DOMAIN caches'["habit-tracker-v8"]
                        /\ caches'["habit-tracker-v8"][url] = net
                   /\ (net = "fail") =>
                        /\ caches' = caches
                        /\ IF cached = {} THEN a.from = "error"
                           ELSE a.from = "cache" /\ a.body \in cached
                   /\ (a.from = "cache") => net = "fail"
              ELSE /\ caches' = caches
                   /\ (cached # {}) => (a.from = "cache" /\ a.body \in cached)
                   /\ (cached = {} /\ net # "fail") =>
                        (a.from = "network" /\ a.body = net)
                   /\ (cached = {} /\ net = "fail") => a.from = "error"
    ]_vars

C24_Witness ==
  /\ worker.script = "part_000"
  /\ worker.phase = "active"
  /\ worker.answer = [url |-> "/assets/index.js", net |-> "fail",
                      from |-> "cache", body |-> "old"]
  /\ DOMAIN caches = {"habit-tracker-v8"}
  /\ caches["habit-tracker-v8"]["/"] = "new"

====
